---------------------------- MODULE Spec2Model ----------------------------
(***************************************************************************)
(* Canvas feed -> CalDAV tasks/events synchronisation.                     *)
(*                                                                         *)
(* A Python str is a string; where the code looks inside one (substring    *)
(* search, whole-word search, the course-id regular expression, strip) the *)
(* model works on Chars(s), the sequence of its characters, as the Python  *)
(* code does.  A Python dict (an item, an iCalendar component) is a        *)
(* function whose DOMAIN is the set of keys present.  None is the empty    *)
(* sequence; an iCalendar date property is the value of its .dt: <<day>>   *)
(* for a date, <<day, hour>> for a datetime.                               *)
(***************************************************************************)
EXTENDS Integers, Sequences, FiniteSets, TLC

None == <<>>

Get(d, k, default) == IF k \in DOMAIN d THEN d[k] ELSE default

SetMin(S) == CHOOSE x \in S : \A y \in S : x <= y
SetMax(S) == CHOOSE x \in S : \A y \in S : x >= y

---------------------------------------------------------------------------
(* Characters                                                              *)

UpperChars == <<"A","B","C","D","E","F","G","H","I","J","K","L","M",
                "N","O","P","Q","R","S","T","U","V","W","X","Y","Z">>
LowerChars == <<"a","b","c","d","e","f","g","h","i","j","k","l","m",
                "n","o","p","q","r","s","t","u","v","w","x","y","z">>
DigitChars == <<"0","1","2","3","4","5","6","7","8","9">>

UpperSet == {UpperChars[i] : i \in 1..26}
LowerSet == {LowerChars[i] : i \in 1..26}
DigitSet == {DigitChars[i] : i \in 1..10}

\* the characters of the strings the model analyses
Chars(s) ==
    CASE s = "practical" -> <<"p", "r", "a", "c", "t", "i", "c", "a", "l">>
      [] s = "exam" -> <<"e", "x", "a", "m">>
      [] s = "midterm" -> <<"m", "i", "d", "t", "e", "r", "m">>
      [] s = "final" -> <<"f", "i", "n", "a", "l">>
      [] s = "test" -> <<"t", "e", "s", "t">>
      [] s = "essay" -> <<"e", "s", "s", "a", "y">>
      [] s = "paper" -> <<"p", "a", "p", "e", "r">>
      [] s = "report" -> <<"r", "e", "p", "o", "r", "t">>
      [] s = "lab" -> <<"l", "a", "b">>
      [] s = "presentation" -> <<"p", "r", "e", "s", "e", "n", "t", "a", "t", "i", "o", "n">>
      [] s = "slides" -> <<"s", "l", "i", "d", "e", "s">>
      [] s = "discussion" -> <<"d", "i", "s", "c", "u", "s", "s", "i", "o", "n">>
      [] s = "project" -> <<"p", "r", "o", "j", "e", "c", "t">>
      [] s = "quiz" -> <<"q", "u", "i", "z">>
      [] s = "2026-05-08" -> <<"2", "0", "2", "6", "-", "0", "5", "-", "0", "8">>
      [] s = "no classes" -> <<"n", "o", " ", "c", "l", "a", "s", "s", "e", "s">>
      [] s = "no school" -> <<"n", "o", " ", "s", "c", "h", "o", "o", "l">>
      [] s = "holiday" -> <<"h", "o", "l", "i", "d", "a", "y">>
      [] s = "break" -> <<"b", "r", "e", "a", "k">>
      [] s = "assignment" -> <<"a", "s", "s", "i", "g", "n", "m", "e", "n", "t">>
      [] s = "homework" -> <<"h", "o", "m", "e", "w", "o", "r", "k">>
      [] s = "case study" -> <<"c", "a", "s", "e", " ", "s", "t", "u", "d", "y">>
      [] s = "review" -> <<"r", "e", "v", "i", "e", "w">>
      [] s = "event-assignment-1" -> <<"e", "v", "e", "n", "t", "-", "a", "s", "s", "i", "g", "n", "m", "e", "n", "t", "-", "1">>
      [] s = "[IT-3150 Win] Lab 3 Report" -> <<"[", "I", "T", "-", "3", "1", "5", "0", " ", "W", "i", "n", "]", " ", "L", "a", "b", " ", "3", " ", "R", "e", "p", "o", "r", "t">>
      [] s = "[IT-3150 Win] Quiz 1" -> <<"[", "I", "T", "-", "3", "1", "5", "0", " ", "W", "i", "n", "]", " ", "Q", "u", "i", "z", " ", "1">>
      [] s = "event-assignment-2" -> <<"e", "v", "e", "n", "t", "-", "a", "s", "s", "i", "g", "n", "m", "e", "n", "t", "-", "2">>
      [] s = "Collaborative essay" -> <<"C", "o", "l", "l", "a", "b", "o", "r", "a", "t", "i", "v", "e", " ", "e", "s", "s", "a", "y">>
      [] s = "event-calendar-event-7" -> <<"e", "v", "e", "n", "t", "-", "c", "a", "l", "e", "n", "d", "a", "r", "-", "e", "v", "e", "n", "t", "-", "7">>
      [] s = "No Classes - Spring Break" -> <<"N", "o", " ", "C", "l", "a", "s", "s", "e", "s", " ", "-", " ", "S", "p", "r", "i", "n", "g", " ", "B", "r", "e", "a", "k">>
      [] s = "event-assignment-3" -> <<"e", "v", "e", "n", "t", "-", "a", "s", "s", "i", "g", "n", "m", "e", "n", "t", "-", "3">>
      [] s = "[IT-3150 Win] Final" -> <<"[", "I", "T", "-", "3", "1", "5", "0", " ", "W", "i", "n", "]", " ", "F", "i", "n", "a", "l">>
      [] s = "event-calendar-event-8" -> <<"e", "v", "e", "n", "t", "-", "c", "a", "l", "e", "n", "d", "a", "r", "-", "e", "v", "e", "n", "t", "-", "8">>
      [] s = "Office hours" -> <<"O", "f", "f", "i", "c", "e", " ", "h", "o", "u", "r", "s">>
      [] s = "" -> <<>>
      [] s = "  " -> <<" ", " ">>
      [] s = " 2026-05-08 " -> <<" ", "2", "0", "2", "6", "-", "0", "5", "-", "0", "8", " ">>
      [] s = "2026-05-07" -> <<"2", "0", "2", "6", "-", "0", "5", "-", "0", "7">>
      [] s = "2026-5-8" -> <<"2", "0", "2", "6", "-", "5", "-", "8">>
      [] s = "2026-05- 8" -> <<"2", "0", "2", "6", "-", "0", "5", "-", " ", "8">>
      [] s = "05/08/2026" -> <<"0", "5", "/", "0", "8", "/", "2", "0", "2", "6">>
      [] s = "2026-02-30" -> <<"2", "0", "2", "6", "-", "0", "2", "-", "3", "0">>
      [] s = "2026-05-08T00:00" -> <<"2", "0", "2", "6", "-", "0", "5", "-", "0", "8", "T", "0", "0", ":", "0", "0">>
      [] s = "soon" -> <<"s", "o", "o", "n">>
      [] s = "[IT-3150 Windows Servers]" -> <<"[", "I", "T", "-", "3", "1", "5", "0", " ", "W", "i", "n", "d", "o", "w", "s", " ", "S", "e", "r", "v", "e", "r", "s", "]">>
      [] s = "[HIST-1700-07 American History]: Essay 2" -> <<"[", "H", "I", "S", "T", "-", "1", "7", "0", "0", "-", "0", "7", " ", "A", "m", "e", "r", "i", "c", "a", "n", " ", "H", "i", "s", "t", "o", "r", "y", "]", ":", " ", "E", "s", "s", "a", "y", " ", "2">>
      [] s = "[IT-3150 Win] No Classes" -> <<"[", "I", "T", "-", "3", "1", "5", "0", " ", "W", "i", "n", "]", " ", "N", "o", " ", "C", "l", "a", "s", "s", "e", "s">>
      [] s = "Lab 3 Report" -> <<"L", "a", "b", " ", "3", " ", "R", "e", "p", "o", "r", "t">>
      [] s = "Collaborative" -> <<"C", "o", "l", "l", "a", "b", "o", "r", "a", "t", "i", "v", "e">>
      [] s = "No school - Holiday" -> <<"N", "o", " ", "s", "c", "h", "o", "o", "l", " ", "-", " ", "H", "o", "l", "i", "d", "a", "y">>
      [] s = "QUIZ 1" -> <<"Q", "U", "I", "Z", " ", "1">>
      [] s = "Labs and slides" -> <<"L", "a", "b", "s", " ", "a", "n", "d", " ", "s", "l", "i", "d", "e", "s">>
      [] s = "Final Exam Review" -> <<"F", "i", "n", "a", "l", " ", "E", "x", "a", "m", " ", "R", "e", "v", "i", "e", "w">>
      [] s = "event-assignment-5" -> <<"e", "v", "e", "n", "t", "-", "a", "s", "s", "i", "g", "n", "m", "e", "n", "t", "-", "5">>
      [] s = "event-calendar-event-9" -> <<"e", "v", "e", "n", "t", "-", "c", "a", "l", "e", "n", "d", "a", "r", "-", "e", "v", "e", "n", "t", "-", "9">>
      [] s = "d" -> <<"d">>
      [] s = "u" -> <<"u">>
      [] s = "d\n\nCanvas: u" -> <<"d", "\n", "\n", "C", "a", "n", "v", "a", "s", ":", " ", "u">>
      [] s = "d\nCanvas: u" -> <<"d", "\n", "C", "a", "n", "v", "a", "s", ":", " ", "u">>
      [] s = "\nCanvas: u" -> <<"\n", "C", "a", "n", "v", "a", "s", ":", " ", "u">>

\* "".join(chars)
RECURSIVE Str(_)
Str(chars) == IF chars = <<>> THEN "" ELSE Head(chars) \o Str(Tail(chars))

\* str.lower() on one character
LowerChar(c) ==
    IF c \in UpperSet
    THEN LowerChars[CHOOSE i \in 1..26 : UpperChars[i] = c]
    ELSE c

\* str.lower()
RECURSIVE Lower(_)
Lower(text) ==
    IF text = <<>> THEN <<>> ELSE <<LowerChar(Head(text))>> \o Lower(Tail(text))

\* str.strip() on the blanks the model uses
RECURSIVE LStrip(_)
LStrip(text) ==
    IF text # <<>> /\ Head(text) \in {" ", "\n"} THEN LStrip(Tail(text)) ELSE text

RECURSIVE RStrip(_)
RStrip(text) ==
    IF text # <<>> /\ text[Len(text)] \in {" ", "\n"}
    THEN RStrip(SubSeq(text, 1, Len(text) - 1))
    ELSE text

Strip(text) == LStrip(RStrip(text))

\* Python's  kw in text
Contains(text, kw) ==
    \E i \in 1..(Len(text) - Len(kw) + 1) : SubSeq(text, i, i + Len(kw) - 1) = kw

\* the digit character of a one-digit number
Digit(n) == DigitChars[n + 1]

---------------------------------------------------------------------------
(* Dates.  Day d of the model is the calendar day 2026-05-0d.              *)

IsDateTime(dt) == Len(dt) = 2

\* str(date) / str(datetime)
DateStr(dt) ==
    IF IsDateTime(dt)
    THEN "2026-05-0" \o Digit(dt[1]) \o " 0" \o Digit(dt[2]) \o ":00:00+00:00"
    ELSE "2026-05-0" \o Digit(dt[1])

\* the number a digit character stands for
DigitValue(c) == CHOOSE n \in 0..9 : DigitChars[n + 1] = c

IsDigitAt(s, k) == k <= Len(s) /\ s[k] \in DigitSet

IsLeap(year) == year % 4 = 0 /\ (year % 100 # 0 \/ year % 400 = 0)

DaysInMonth(year, month) ==
    IF month = 2 THEN (IF IsLeap(year) THEN 29 ELSE 28)
    ELSE IF month \in {4, 6, 9, 11} THEN 30 ELSE 31

RECURSIVE DaysBeforeMonth(_, _)
DaysBeforeMonth(year, month) ==
    IF month = 1 THEN 0
    ELSE DaysBeforeMonth(year, month - 1) + DaysInMonth(year, month - 1)

\* date.toordinal()
ToOrdinal(year, month, day) ==
    LET y == year - 1
    IN  y * 365 + y \div 4 - y \div 100 + y \div 400 + DaysBeforeMonth(year, month) + day

\* the day of the model a calendar date is: 2026-05-01 is day 1
DayOf(year, month, day) == ToOrdinal(year, month, day) - ToOrdinal(2026, 4, 30)

\* %Y of strptime, (?P<Y>\d\d\d\d) at the start of s: <<year>> or None
StrpYear(s) ==
    IF IsDigitAt(s, 1) /\ IsDigitAt(s, 2) /\ IsDigitAt(s, 3) /\ IsDigitAt(s, 4)
    THEN <<DigitValue(s[1]) * 1000 + DigitValue(s[2]) * 100
           + DigitValue(s[3]) * 10 + DigitValue(s[4])>>
    ELSE None

\* %m of strptime, (?P<m>1[0-2]|0[1-9]|[1-9]) at position p of s:
\* <<month, length matched>> or None
StrpMonth(s, p) ==
    IF ~ IsDigitAt(s, p) THEN None
    ELSE IF s[p] = "1" /\ IsDigitAt(s, p + 1) /\ DigitValue(s[p + 1]) <= 2
    THEN <<10 + DigitValue(s[p + 1]), 2>>
    ELSE IF s[p] = "0"
    THEN (IF IsDigitAt(s, p + 1) /\ s[p + 1] # "0"
          THEN <<DigitValue(s[p + 1]), 2>> ELSE None)
    ELSE <<DigitValue(s[p]), 1>>

\* %d of strptime, (?P<d>3[0-1]|[1-2]\d|0[1-9]|[1-9]| [1-9]) at position q of s:
\* <<day, length matched>> or None
StrpDay(s, q) ==
    IF q > Len(s) THEN None
    ELSE IF s[q] = "3" /\ IsDigitAt(s, q + 1) /\ DigitValue(s[q + 1]) <= 1
    THEN <<30 + DigitValue(s[q + 1]), 2>>
    ELSE IF s[q] \in {"1", "2"} /\ IsDigitAt(s, q + 1)
    THEN <<DigitValue(s[q]) * 10 + DigitValue(s[q + 1]), 2>>
    ELSE IF s[q] = "0"
    THEN (IF IsDigitAt(s, q + 1) /\ s[q + 1] # "0"
          THEN <<DigitValue(s[q + 1]), 2>> ELSE None)
    ELSE IF s[q] \in DigitSet
    THEN <<DigitValue(s[q]), 1>>
    ELSE IF s[q] = " " /\ IsDigitAt(s, q + 1) /\ s[q + 1] # "0"
    THEN <<DigitValue(s[q + 1]), 2>>
    ELSE None

\* datetime.strptime(s, "%Y-%m-%d").date(): <<year, month, day>>, or None where
\* strptime raises ValueError (no match of the format at the start of s,
\* unconverted data after the match, or a day the month does not have)
Strptime(s) ==
    LET year == StrpYear(s)
    IN  IF year = None \/ Len(s) < 5 \/ s[5] # "-" THEN None
        ELSE LET month == StrpMonth(s, 6)
             IN  IF month = None THEN None
                 ELSE LET q == 6 + month[2]
                      IN  IF q > Len(s) \/ s[q] # "-" THEN None
                          ELSE LET day == StrpDay(s, q + 1)
                               IN  IF day = None THEN None
                                   ELSE IF q + day[2] # Len(s) THEN None
                                   ELSE IF year[1] = 0 THEN None
                                   ELSE IF day[1] > DaysInMonth(year[1], month[1])
                                   THEN None
                                   ELSE <<year[1], month[1], day[1]>>

\* config.parse_end_date: None for an empty, blank or unparsable string, else
\* the day of the date strptime reads in the stripped string
parse_end_date(date_str) ==
    IF date_str = "" \/ Strip(Chars(date_str)) = <<>>
    THEN None
    ELSE LET parsed == Strptime(Strip(Chars(date_str)))
         IN  IF parsed = None THEN None
             ELSE <<DayOf(parsed[1], parsed[2], parsed[3])>>

\* canvas.get_item_date: the date of dtstart, datetime or date
get_item_date(item) ==
    IF item.dtstart = None THEN None ELSE <<item.dtstart[1]>>

\* the test with "before" for "on or before"
IsBeforeEndDate(item, end_date) ==
    IF end_date = None
    THEN TRUE
    ELSE IF get_item_date(item) = None
         THEN TRUE
         ELSE get_item_date(item)[1] < end_date[1]

is_within_date_range(item, end_date) ==
    IF end_date = None
    THEN TRUE
    ELSE IF get_item_date(item) = None
         THEN TRUE
         ELSE get_item_date(item)[1] <= end_date[1]

---------------------------------------------------------------------------
(* Keyword matching, course id, type tag                                   *)

matches_keywords(text, keywords) ==
    IF keywords = <<>>
    THEN FALSE
    ELSE LET text_lower == Lower(Chars(text))
         IN  \E k \in 1..Len(keywords) :
                Contains(text_lower, Lower(Chars(keywords[k])))

\* re.search(r"\[([A-Z0-9-]+)(?:-\d{2})? [^\]]+\]", summary): the leftmost
\* "[" at which the pattern matches; group 1 is greedy, so it is the longest
\* run of code characters after which the rest of the pattern matches.
IsCodeChar(c) == c \in UpperSet \/ c \in DigitSet \/ c = "-"

\* the end of the longest run of code characters that starts after position e
RECURSIVE CodeRunEnd(_, _)
CodeRunEnd(s, e) ==
    IF e + 1 <= Len(s) /\ IsCodeChar(s[e + 1]) THEN CodeRunEnd(s, e + 1) ELSE e

\* " [^\]]+\]" matches at position q
CourseRest(s, q) ==
    /\ q <= Len(s)
    /\ s[q] = " "
    /\ \E r \in (q + 2)..Len(s) :
          /\ s[r] = "]"
          /\ \A j \in (q + 1)..(r - 1) : s[j] # "]"

\* "-\d{2}" matches after position e
CourseSuffix(s, e) ==
    /\ e + 3 <= Len(s)
    /\ s[e + 1] = "-"
    /\ s[e + 2] \in DigitSet
    /\ s[e + 3] \in DigitSet

\* the ends of group 1 with which the pattern matches at the "[" at position p
CourseEnds(s, p) ==
    {e \in (p + 1)..CodeRunEnd(s, p) :
        \/ CourseSuffix(s, e) /\ CourseRest(s, e + 4)
        \/ CourseRest(s, e + 1)}

\* the leftmost position from p on at which the pattern matches; 0 when there is none
RECURSIVE CourseStart(_, _)
CourseStart(s, p) ==
    IF p > Len(s)
    THEN 0
    ELSE IF s[p] = "[" /\ CourseEnds(s, p) # {}
    THEN p
    ELSE CourseStart(s, p + 1)

\* None, or <<group 1 of the match>>
extract_course_id_from_summary(summary) ==
    LET s == Chars(summary)
        p == CourseStart(s, 1)
    IN  IF p = 0
        THEN None
        ELSE <<Str(SubSeq(s, p + 1, SetMax(CourseEnds(s, p))))>>

\* canvas.ASSIGNMENT_TYPE_KEYWORDS in the order the dict defines
ASSIGNMENT_TYPE_KEYWORDS ==
    << <<"Practical", <<"practical">> >>,
       <<"Exam", <<"exam", "midterm", "final", "test">> >>,
       <<"Essay", <<"essay", "paper", "report">> >>,
       <<"Lab", <<"lab">> >>,
       <<"Presentation", <<"presentation", "slides">> >>,
       <<"Discussion", <<"discussion">> >>,
       <<"Project", <<"project">> >>,
       <<"Quiz", <<"quiz">> >> >>

DEFAULT_ASSIGNMENT_TYPE_TAG == "Assignment"

IsWordChar(c) == c \in UpperSet \cup LowerSet \cup DigitSet \cup {"_"}

\* regex \b between position k and k + 1 of s (k = 0: before the first character)
WordBoundary(s, k) ==
    LET before == k >= 1 /\ k <= Len(s) /\ IsWordChar(s[k])
        after  == k + 1 >= 1 /\ k + 1 <= Len(s) /\ IsWordChar(s[k + 1])
    IN  before # after

\* a search without the two \b: the keyword anywhere in text
SubstringSearch(text, keyword) ==
    \E i \in 1..(Len(text) - Len(keyword) + 1) :
        SubSeq(text, i, i + Len(keyword) - 1) = keyword

\* re.search(r"\b" + re.escape(keyword) + r"\b", text)
WholeWordSearch(text, keyword) ==
    \E i \in 1..(Len(text) - Len(keyword) + 1) :
        /\ SubSeq(text, i, i + Len(keyword) - 1) = keyword
        /\ WordBoundary(text, i - 1)
        /\ WordBoundary(text, i + Len(keyword) - 1)

\* some keyword of the t-th tag is found in summary_lower
TagMatches(summary_lower, t) ==
    \E k \in 1..Len(ASSIGNMENT_TYPE_KEYWORDS[t][2]) :
        WholeWordSearch(summary_lower, Chars(ASSIGNMENT_TYPE_KEYWORDS[t][2][k]))

get_assignment_type_tag(summary) ==
    LET summary_lower == Lower(Chars(summary))
        matching == {t \in 1..Len(ASSIGNMENT_TYPE_KEYWORDS) : TagMatches(summary_lower, t)}
    IN  IF matching # {}
        THEN ASSIGNMENT_TYPE_KEYWORDS[SetMin(matching)][1]
        ELSE DEFAULT_ASSIGNMENT_TYPE_TAG

---------------------------------------------------------------------------
(* Configuration: the [sync] section create_default_config writes          *)

DefaultEndDate == "2026-05-08"

NoClassKeywords == <<"no classes", "no school", "holiday", "break">>

AssignmentUidKeywords == <<"assignment">>

AssignmentSummaryKeywords ==
    <<"assignment", "lab", "quiz", "exam", "slides", "discussion",
      "project", "homework", "paper", "report", "case study",
      "presentation", "test", "review", "final">>

---------------------------------------------------------------------------
(* canvas.fetch_canvas_items: the classification of one VEVENT of the feed *)

\* item_info as built from the component, with course_id when one is extracted
ItemInfo(component) ==
    LET base == [uid         |-> component.uid,
                 summary     |-> component.summary,
                 dtstart     |-> component.dtstart,
                 dtend       |-> component.dtend,
                 description |-> component.description,
                 url         |-> component.url,
                 location    |-> component.location]
        course_id == extract_course_id_from_summary(component.summary)
    IN  IF course_id # None THEN base @@ [course_id |-> course_id[1]] ELSE base

\* the rules with the course id tested before the no-class keywords
CategoryCourseIdFirst(item_info, end_date) ==
    IF ~ is_within_date_range(item_info, end_date)
    THEN "filtered_out"
    ELSE IF Get(item_info, "course_id", "") # ""
    THEN "assignments"
    ELSE IF matches_keywords(item_info.summary, NoClassKeywords)
    THEN "no_class_events"
    ELSE IF \/ matches_keywords(item_info.uid, AssignmentUidKeywords)
            \/ matches_keywords(item_info.summary, AssignmentSummaryKeywords)
    THEN "assignments"
    ELSE "skipped"

\* the list the loop body appends item_info to
Category(item_info, end_date) ==
    IF ~ is_within_date_range(item_info, end_date)
    THEN "filtered_out"
    ELSE IF matches_keywords(item_info.summary, NoClassKeywords)
    THEN "no_class_events"
    ELSE IF Get(item_info, "course_id", "") # ""
    THEN "assignments"
    ELSE IF \/ matches_keywords(item_info.uid, AssignmentUidKeywords)
            \/ matches_keywords(item_info.summary, AssignmentSummaryKeywords)
    THEN "assignments"
    ELSE "skipped"

\* a loop body that sets type_tag on every item
ClassifyItemTaggingAll(component, end_date) ==
    LET item_info == ItemInfo(component)
    IN  [list |-> Category(item_info, end_date),
         item |-> item_info @@ [type_tag |-> get_assignment_type_tag(item_info.summary)]]

\* one pass of the loop body: the list item_info is appended to, and item_info as
\* it is afterwards (type_tag is set when it is in assignments)
ClassifyItem(component, end_date) ==
    LET item_info == ItemInfo(component)
        list == Category(item_info, end_date)
    IN  [list |-> list,
         item |-> IF list = "assignments"
                  THEN item_info @@ [type_tag |-> get_assignment_type_tag(item_info.summary)]
                  ELSE item_info]

Classified(component, end_date) == ClassifyItem(component, end_date).item

\* the loop over cal.walk(): one ClassifyItem per VEVENT, in feed order
RECURSIVE ClassifyFeed(_, _)
ClassifyFeed(cal, end_date) ==
    IF cal = <<>>
    THEN <<>>
    ELSE <<ClassifyItem(Head(cal), end_date)>> \o ClassifyFeed(Tail(cal), end_date)

\* the items appended to the list called name, in the order they were appended
RECURSIVE ListOf(_, _)
ListOf(classified, name) ==
    IF classified = <<>>
    THEN <<>>
    ELSE IF Head(classified).list = name
    THEN <<Head(classified).item>> \o ListOf(Tail(classified), name)
    ELSE ListOf(Tail(classified), name)

---------------------------------------------------------------------------
(* ical_helpers                                                            *)

\* hashlib.md5(content.encode()).hexdigest()[:16], taken as injective on the
\* encoded content: the digest of a content is the content
Md5Hex16(content) == content

\* a fingerprint that leaves the location out
HashContentWithoutLocation(item) ==
    Get(item, "summary", "")
    \o "|" \o Get(item, "description", "")
    \o "|" \o Get(item, "url", "")
    \o (IF Get(item, "dtstart", None) # None
        THEN "|start:" \o DateStr(item.dtstart) ELSE "")
    \o (IF Get(item, "dtend", None) # None
        THEN "|end:" \o DateStr(item.dtend) ELSE "")
    \o (IF Get(item, "course_id", "") # ""
        THEN "|course_id:" \o item.course_id ELSE "")
    \o (IF Get(item, "type_tag", "") # ""
        THEN "|type_tag:" \o item.type_tag ELSE "")

\* the string compute_item_hash builds before hashing
HashContent(item) ==
    Get(item, "summary", "")
    \o "|" \o Get(item, "description", "")
    \o "|" \o Get(item, "url", "")
    \o "|" \o Get(item, "location", "")
    \o (IF Get(item, "dtstart", None) # None
        THEN "|start:" \o DateStr(item.dtstart) ELSE "")
    \o (IF Get(item, "dtend", None) # None
        THEN "|end:" \o DateStr(item.dtend) ELSE "")
    \o (IF Get(item, "course_id", "") # ""
        THEN "|course_id:" \o item.course_id ELSE "")
    \o (IF Get(item, "type_tag", "") # ""
        THEN "|type_tag:" \o item.type_tag ELSE "")

compute_item_hash(item) == Md5Hex16(HashContent(item))

create_uid(canvas_uid, prefix) == "canvas-" \o prefix \o "-" \o canvas_uid

TaskPrefix == "task"
EventPrefix == "event"

\* "\n".join(description_parts) of assignment_to_vtodo / update_vtodo
TodoDescription(assignment) ==
    IF assignment.description # "" /\ assignment.url # ""
    THEN assignment.description \o "\n" \o "\nCanvas: " \o assignment.url
    ELSE IF assignment.description # ""
    THEN assignment.description
    ELSE IF assignment.url # ""
    THEN "\nCanvas: " \o assignment.url
    ELSE ""

\* the properties both builders of a VTODO add from the source item
TodoSourceFields(assignment, content_hash) ==
    LET due_date == IF assignment.dtend # None THEN assignment.dtend
                    ELSE assignment.dtstart
        categories == (IF Get(assignment, "course_id", "") # ""
                       THEN <<assignment.course_id>> ELSE <<>>)
                      \o (IF Get(assignment, "type_tag", "") # ""
                          THEN <<assignment.type_tag>> ELSE <<>>)
    IN  [uid |-> create_uid(assignment.uid, TaskPrefix),
         summary |-> assignment.summary,
         x_canvas_hash |-> content_hash]
        @@ (IF due_date # None THEN [due |-> due_date] ELSE <<>>)
        @@ (IF TodoDescription(assignment) # ""
            THEN [description |-> TodoDescription(assignment)] ELSE <<>>)
        @@ (IF assignment.url # "" THEN [url |-> assignment.url] ELSE <<>>)
        @@ (IF categories # <<>> THEN [categories |-> categories] ELSE <<>>)

NewTodoPriority == 5

assignment_to_vtodo(assignment, content_hash, now) ==
    TodoSourceFields(assignment, content_hash)
    @@ [dtstamp |-> <<now>>,
        created |-> <<now>>,
        last_modified |-> <<now>>,
        status |-> "NEEDS-ACTION",
        priority |-> NewTodoPriority]

\* created: the prior record's when it has one, else now
UpdatedCreated(existing_component, now) ==
    IF Get(existing_component, "created", None) # None
    THEN existing_component.created
    ELSE <<now>>

\* percent-complete is copied when the prior value is truthy
UpdatedPercent(existing_component) ==
    IF "percent_complete" \in DOMAIN existing_component
       /\ existing_component.percent_complete # 0
    THEN [percent_complete |-> existing_component.percent_complete]
    ELSE <<>>

UpdatedCompleted(existing_component) ==
    IF Get(existing_component, "completed", None) # None
    THEN [completed |-> existing_component.completed]
    ELSE <<>>

UpdatedStatus(existing_component) ==
    Get(existing_component, "status", "NEEDS-ACTION")

\* todo.add("priority", 5) of update_vtodo
RebuiltTodoPriority == 5

\* the literal, whatever priority the prior record has
UpdatedPriority(existing_component) == RebuiltTodoPriority

update_vtodo(existing_component, assignment, content_hash, now) ==
    TodoSourceFields(assignment, content_hash)
    @@ [dtstamp |-> <<now>>,
        created |-> UpdatedCreated(existing_component, now),
        last_modified |-> <<now>>,
        status |-> UpdatedStatus(existing_component),
        priority |-> UpdatedPriority(existing_component)]
    @@ UpdatedPercent(existing_component)
    @@ UpdatedCompleted(existing_component)

\* the properties both builders of a VEVENT add from the source item
EventSourceFields(item, content_hash) ==
    [uid |-> create_uid(item.uid, EventPrefix),
     summary |-> item.summary,
     x_canvas_hash |-> content_hash]
    @@ (IF item.dtstart # None THEN [dtstart |-> item.dtstart] ELSE <<>>)
    @@ (IF item.dtend # None THEN [dtend |-> item.dtend] ELSE <<>>)
    @@ (IF item.description # "" THEN [description |-> item.description] ELSE <<>>)
    @@ (IF item.url # "" THEN [url |-> item.url] ELSE <<>>)
    @@ (IF Get(item, "course_id", "") # ""
        THEN [categories |-> <<item.course_id>>] ELSE <<>>)

no_class_to_vevent(item, content_hash, now) ==
    EventSourceFields(item, content_hash)
    @@ [dtstamp |-> <<now>>, created |-> <<now>>, last_modified |-> <<now>>]

update_vevent(existing_component, item, content_hash, now) ==
    EventSourceFields(item, content_hash)
    @@ [dtstamp |-> <<now>>,
        created |-> UpdatedCreated(existing_component, now),
        last_modified |-> <<now>>]

---------------------------------------------------------------------------
(* The feed and the remote calendar the runs start from                    *)

\* bound: the number of VEVENTs in the feed
MaxFeed == 2

\* bound: the number of runs of main
MaxRuns == 2

FeedLab ==
    [uid |-> "event-assignment-1", summary |-> "[IT-3150 Win] Lab 3 Report",
     dtstart |-> <<5>>, dtend |-> <<5>>, description |-> "d", url |-> "u",
     location |-> ""]

\* the same source item with another title
FeedLabRenamed ==
    [uid |-> "event-assignment-1", summary |-> "[IT-3150 Win] Quiz 1",
     dtstart |-> <<5>>, dtend |-> <<5>>, description |-> "d", url |-> "u",
     location |-> ""]

FeedEssay ==
    [uid |-> "event-assignment-2", summary |-> "Collaborative essay",
     dtstart |-> None, dtend |-> None, description |-> "", url |-> "",
     location |-> ""]

FeedBreak ==
    [uid |-> "event-calendar-event-7", summary |-> "No Classes - Spring Break",
     dtstart |-> <<4>>, dtend |-> <<6>>, description |-> "", url |-> "",
     location |-> "x"]

\* dated after the default end date
FeedFinal ==
    [uid |-> "event-assignment-3", summary |-> "[IT-3150 Win] Final",
     dtstart |-> <<9, 8>>, dtend |-> <<9, 8>>, description |-> "", url |-> "",
     location |-> ""]

FeedOfficeHours ==
    [uid |-> "event-calendar-event-8", summary |-> "Office hours",
     dtstart |-> <<3>>, dtend |-> None, description |-> "", url |-> "",
     location |-> ""]

\* the same no-class notice, a day longer
FeedBreakExtended ==
    [uid |-> "event-calendar-event-7", summary |-> "No Classes - Spring Break",
     dtstart |-> <<4>>, dtend |-> <<7>>, description |-> "", url |-> "",
     location |-> "x"]

FeedPool ==
    {FeedLab, FeedLabRenamed, FeedEssay, FeedBreak, FeedBreakExtended, FeedFinal,
     FeedOfficeHours}

Feeds == UNION {[1..n -> FeedPool] : n \in 0..MaxFeed}

\* the VTODO an earlier run (at time 0) saved for a feed entry
SavedTodo(component) ==
    LET item == Classified(component, parse_end_date(DefaultEndDate))
    IN  assignment_to_vtodo(item, compute_item_hash(item), 0)

SavedEvent(component) ==
    LET item == Classified(component, parse_end_date(DefaultEndDate))
    IN  no_class_to_vevent(item, compute_item_hash(item), 0)

\* r with the properties of e set (a task client editing the record)
Edited(r, e) == e @@ r

\* r without the properties in keys
Without(r, keys) == [k \in DOMAIN r \ keys |-> r[k]]

\* what the user's task client may have made of the VTODO saved for FeedLab
LabTodos ==
    { SavedTodo(FeedLab),
      Edited(SavedTodo(FeedLab),
             [status |-> "COMPLETED", percent_complete |-> 100,
              completed |-> <<0>>, priority |-> 1]),
      Edited(SavedTodo(FeedLab),
             [status |-> "IN-PROCESS", percent_complete |-> 0, priority |-> 9]),
      Without(SavedTodo(FeedLab), {"created", "status"}) }

\* r as a resource in which the values of the properties in keys are text the
\* parser cannot read as a value of the property
Broken(r, keys) == [broken |-> keys] @@ r

\* the VTODO saved for FeedLab, completed by the user, with a malformed
\* COMPLETED, CREATED or PERCENT-COMPLETE
BrokenLabTodos ==
    LET done == Edited(SavedTodo(FeedLab),
                       [status |-> "COMPLETED", percent_complete |-> 100,
                        completed |-> <<0>>])
    IN  {Broken(done, {"completed"}), Broken(done, {"created"}),
         Broken(done, {"percent_complete"})}

EmptyStore == <<>>

Store(records) == [u \in {r.uid : r \in records} |-> CHOOSE r \in records : r.uid = u]

InitialTodos ==
    { Store(a) : a \in {{}, {SavedTodo(FeedEssay)},
                        {SavedTodo(FeedLab), SavedTodo(FeedEssay)}}
                       \cup {{r} : r \in LabTodos} }

InitialEvents == { Store(a) : a \in {{}, {SavedEvent(FeedBreak)}} }


---------------------------------------------------------------------------
(* Feeds and configurations for fetch_canvas_items alone                   *)

\* values of end_date a config.toml may hold: the default, no filter, dates
\* written in other ways, and strings that are no date
EndDateStrings ==
    {"2026-05-08", "", "  ", " 2026-05-08 ", "2026-05-07", "2026-5-8",
     "2026-05- 8", "05/08/2026", "2026-02-30", "2026-05-08T00:00", "soon"}

\* SUMMARY of a VEVENT
Titles ==
    {"[IT-3150 Windows Servers]",
     "[HIST-1700-07 American History]: Essay 2",
     "[IT-3150 Win] No Classes",
     "Lab 3 Report",
     "Collaborative",
     "Office hours",
     "No school - Holiday",
     "QUIZ 1",
     "Labs and slides",
     "Final Exam Review"}

\* UID of a VEVENT: of an assignment, of a calendar event
SourceUids == {"event-assignment-5", "event-calendar-event-9"}

\* DTSTART of a VEVENT: none, the default end date as a date and as a datetime,
\* the day after it
StartDates == {None, <<8>>, <<8, 9>>, <<9>>}

TitledEntries ==
    {[uid |-> u, summary |-> t, dtstart |-> d, dtend |-> d,
      description |-> "", url |-> "", location |-> ""] :
        u \in SourceUids, t \in Titles, d \in StartDates}

\* a feed of one VEVENT, or a feed of the runs above
FetchFeeds == {<<e>> : e \in TitledEntries} \cup Feeds

---------------------------------------------------------------------------
(* Items for compute_item_hash alone.  A field is <<>> (not there) or      *)
(* <<value>>, in the order: summary, description, url, location, dtstart,  *)
(* dtend, course_id, type_tag.                                             *)

FieldKeys ==
    <<"summary", "description", "url", "location", "dtstart", "dtend",
      "course_id", "type_tag">>

\* the fields whose value is text
TextFields == {1, 2, 3, 4, 7, 8}

\* values the fields of an item of fetch_canvas_items take: the four texts are
\* always strings, a date is None or a date or a datetime, course_id and
\* type_tag are missing or a non-empty string
FieldValues ==
    << {<<"s">>, <<"t">>},
       {<<"">>, <<"d">>},
       {<<"">>, <<"u">>},
       {<<"">>, <<"|start:2026-05-05">>},
       {<<>>, << <<5>> >>, << <<5, 8>> >>},
       {<<>>, << <<5>> >>},
       {<<>>, <<"IT-3150">>},
       {<<>>, <<"Lab">>} >>

ItemFields ==
    {<<a, b, c, d, e, f, g, h>> :
        a \in FieldValues[1], b \in FieldValues[2], c \in FieldValues[3],
        d \in FieldValues[4], e \in FieldValues[5], f \in FieldValues[6],
        g \in FieldValues[7], h \in FieldValues[8]}

\* the dict entry of the k-th field: a date that is not there is None under its
\* key, as component.get("DTSTART") leaves it; another field has no key
FieldEntry(k, field) ==
    IF field # <<>> THEN [x \in {FieldKeys[k]} |-> field[1]]
    ELSE IF k \in {5, 6} THEN [x \in {FieldKeys[k]} |-> None]
    ELSE <<>>

\* the item dict with these fields
ItemOf(uid, fields) ==
    [uid |-> uid]
      @@ FieldEntry(1, fields[1]) @@ FieldEntry(2, fields[2])
      @@ FieldEntry(3, fields[3]) @@ FieldEntry(4, fields[4])
      @@ FieldEntry(5, fields[5]) @@ FieldEntry(6, fields[6])
      @@ FieldEntry(7, fields[7]) @@ FieldEntry(8, fields[8])

\* two items of different source UIDs: the second has the fields of the first,
\* or differs from it in the k-th field alone
OneFieldApart(fields, k, value) ==
    <<ItemOf("event-assignment-1", fields),
      ItemOf("event-assignment-2", [fields EXCEPT ![k] = value])>>

\* two items of different source UIDs: the second differs from the first in
\* the k-th field and the field after it, or in one of them, or in none
TwoFieldsApart(fields, k, value, next_value) ==
    <<ItemOf("event-assignment-1", fields),
      ItemOf("event-assignment-2",
             [fields EXCEPT ![k] = value, ![k + 1] = next_value])>>

\* two items alike but for the text field k: missing in the first, the empty
\* string in the second
MissingAndEmpty(fields, k) ==
    <<ItemOf("event-assignment-1", [fields EXCEPT ![k] = <<>>]),
      ItemOf("event-assignment-2", [fields EXCEPT ![k] = <<"">>])>>
---------------------------------------------------------------------------
(* State                                                                   *)

VARIABLES
    feed,              \* the VEVENTs of the Canvas feed, in feed order
    config_end_date,   \* config["sync"]["end_date"]
    hash_items,        \* the items compute_item_hash is called on, one after the other
    hashes,            \* what the calls returned, in order
    pc,                \* where main is
    run,               \* the number of the run of main
    now,               \* datetime.now() of the run
    assignments,       \* fetch_canvas_items: the four lists
    no_class_events,
    skipped,
    filtered_out,
    remote_todos,      \* the calendar on the server: uid -> VTODO
    remote_events,     \* the calendar on the server: uid -> VEVENT
    list_result,       \* which listings of get_existing_items succeeded
    existing_todos,    \* the index get_existing_items returned
    existing_events,
    i,                 \* the position of the loop running in sync_to_caldav
    pending,           \* the component built for the item, not saved yet
    tasks_added, tasks_updated, tasks_unchanged,
    events_added, events_updated, events_unchanged,
    updated_items,     \* the list printed as DETAILED CHANGES
    failed_prints,     \* the number of "Failed"/"Update failed" lines printed
    calls,             \* the delete/save calls the run made on the server, with their outcome
    start_todos,       \* the calendar as it was when the run started
    start_events,
    prev_calls         \* the calls of the previous run

vars == <<feed, config_end_date, hash_items, hashes, pc, run, now, assignments, no_class_events, skipped, filtered_out,
          remote_todos, remote_events, list_result, existing_todos, existing_events,
          i, pending, tasks_added, tasks_updated, tasks_unchanged,
          events_added, events_updated, events_unchanged,
          updated_items, failed_prints, calls, start_todos, start_events, prev_calls>>

inputs == <<feed, config_end_date>>

hashing == <<hash_items, hashes>>

counters == <<tasks_added, tasks_updated, tasks_unchanged,
              events_added, events_updated, events_unchanged>>

lists == <<assignments, no_class_events, skipped, filtered_out>>

ghosts == <<start_todos, start_events, prev_calls>>

NoPending == <<>>

\* main has not started: no list, no index, no counter, no call yet
FreshRun ==
    /\ run = 1
    /\ now = 1
    /\ assignments = <<>> /\ no_class_events = <<>>
    /\ skipped = <<>> /\ filtered_out = <<>>
    /\ list_result = "none"
    /\ existing_todos = EmptyStore /\ existing_events = EmptyStore
    /\ i = 1
    /\ pending = NoPending
    /\ tasks_added = 0 /\ tasks_updated = 0 /\ tasks_unchanged = 0
    /\ events_added = 0 /\ events_updated = 0 /\ events_unchanged = 0
    /\ updated_items = <<>>
    /\ failed_prints = 0
    /\ calls = <<>>
    /\ start_todos = remote_todos /\ start_events = remote_events
    /\ prev_calls = <<>>

\* main on a feed and a calendar, with the configuration create_default_config writes
Init ==
    /\ \E f \in Feeds, todos \in InitialTodos, events \in InitialEvents :
          /\ feed = f
          /\ remote_todos = todos
          /\ remote_events = events
    /\ config_end_date = DefaultEndDate
    /\ hash_items = <<>> /\ hashes = <<>>
    /\ pc = "fetch"
    /\ FreshRun

---------------------------------------------------------------------------
(* main: fetch_canvas_items, then sync_to_caldav unless both lists are empty *)

FetchCanvasItems ==
    /\ pc = "fetch"
    /\ LET classified == ClassifyFeed(feed, parse_end_date(config_end_date))
       IN  /\ assignments' = ListOf(classified, "assignments")
           /\ no_class_events' = ListOf(classified, "no_class_events")
           /\ skipped' = ListOf(classified, "skipped")
           /\ filtered_out' = ListOf(classified, "filtered_out")
    /\ pc' = IF assignments' = <<>> /\ no_class_events' = <<>> THEN "done" ELSE "list"
    /\ UNCHANGED <<inputs, hashing, run, now, remote_todos, remote_events, list_result,
                   existing_todos, existing_events, i, pending, counters,
                   updated_items, failed_prints, calls, ghosts>>

\* caldav_client.get_existing_items: uid -> {hash, object, component} for the
\* components with a non-empty UID; the object is the handle of the resource
Index(remote) ==
    [u \in {v \in DOMAIN remote : Get(remote[v], "uid", "") # ""} |->
        [hash |-> Get(remote[u], "x_canvas_hash", ""),
         object |-> u,
         component |-> remote[u]]]

\* the resources with a property whose value is not of the property's type
BrokenIn(remote) == {u \in DOMAIN remote : Get(remote[u], "broken", {}) # {}}

\* Calendar.from_ical on the resources listed.  On a resource with such a
\* property the parser either raises, and "except Exception: pass" leaves the
\* resource out of the index, or it returns the component without the
\* property; raised is the set of resources on which it raised
FromIcal(remote, raised) ==
    [u \in DOMAIN remote \ raised |->
        Without(remote[u], {"broken"} \cup Get(remote[u], "broken", {}))]

\* a listing that raises leaves its dict empty, and the other listing still runs
GetExistingItems ==
    /\ pc = "list"
    /\ \E todos_ok \in BOOLEAN, events_ok \in BOOLEAN :
       \E todos_raised \in SUBSET BrokenIn(remote_todos),
          events_raised \in SUBSET BrokenIn(remote_events) :
          /\ existing_todos' = IF todos_ok
                               THEN Index(FromIcal(remote_todos, todos_raised))
                               ELSE EmptyStore
          /\ existing_events' = IF events_ok
                                THEN Index(FromIcal(remote_events, events_raised))
                                ELSE EmptyStore
          /\ list_result' = IF todos_ok /\ events_ok THEN "ok"
                            ELSE IF events_ok THEN "todos_failed"
                            ELSE IF todos_ok THEN "events_failed"
                            ELSE "both_failed"
    /\ pc' = "tasks"
    /\ i' = 1
    /\ UNCHANGED <<inputs, hashing, run, now, lists, remote_todos, remote_events, pending,
                   counters, updated_items, failed_prints, calls, ghosts>>

---------------------------------------------------------------------------
(* sync.detect_changes: the labels of the lines it appends, in order       *)

\* the descriptions detect_changes strips
DescriptionTexts == {"", "d", "u", "d\n\nCanvas: u", "d\nCanvas: u", "\nCanvas: u"}

DtStr(prop) == IF prop = None THEN "None" ELSE DateStr(prop)

NewDescFull(new_item) ==
    IF Get(new_item, "url", "") # ""
    THEN IF Get(new_item, "description", "") # ""
         THEN new_item.description \o "\nCanvas: " \o new_item.url
         ELSE "\nCanvas: " \o new_item.url
    ELSE Get(new_item, "description", "")

detect_changes(existing_component, new_item, item_type) ==
    (IF Get(existing_component, "summary", "") # Get(new_item, "summary", "")
     THEN <<"Title">> ELSE <<>>)
    \o (IF Strip(Chars(Get(existing_component, "description", "")))
           # Strip(Chars(NewDescFull(new_item)))
        THEN <<"Description">> ELSE <<>>)
    \o (IF Get(existing_component, "url", "") # Get(new_item, "url", "")
        THEN <<"URL">> ELSE <<>>)
    \o (IF item_type = "task"
        THEN IF DtStr(Get(existing_component, "due", None))
                # DtStr(IF Get(new_item, "dtend", None) # None
                        THEN new_item.dtend ELSE Get(new_item, "dtstart", None))
             THEN <<"Due">> ELSE <<>>
        ELSE (IF DtStr(Get(existing_component, "dtstart", None))
                 # DtStr(Get(new_item, "dtstart", None))
              THEN <<"Start">> ELSE <<>>)
             \o (IF DtStr(Get(existing_component, "dtend", None))
                    # DtStr(Get(new_item, "dtend", None))
                 THEN <<"End">> ELSE <<>>))
    \o (IF Get(existing_component, "location", "") # Get(new_item, "location", "")
        THEN <<"Location">> ELSE <<>>)

---------------------------------------------------------------------------
(* sync.sync_to_caldav                                                     *)

\* the comparison reading the hash under the iCalendar property's name, a key
\* an index entry does not have: it never sees a stored hash
HashReadUnderPropertyName(existing, content_hash) ==
    Get(existing, "x_canvas_hash", "") = content_hash

\* existing["hash"] == content_hash
HashUnchanged(existing, content_hash) == existing.hash = content_hash

\* a handler that gives the run up at the first call that raises
AbortAfterFailedWrite(loop) == "done"

\* except Exception: print(...); the loop goes on with the next item
AfterFailedWrite(loop) == loop

\* calendar.save_todo / save_event: the resource of the component's UID is written
Put(remote, component) == (component.uid :> component) @@ remote

\* object.delete(): the resource is gone
Remove(remote, handle) == [u \in DOMAIN remote \ {handle} |-> remote[u]]

Call(op, kind, idx, uid, ok) ==
    [op |-> op, kind |-> kind, idx |-> idx, uid |-> uid, ok |-> ok]

\* the loop body for one assignment, up to the first call on the server
SyncTask ==
    /\ pc = "tasks"
    /\ i <= Len(assignments)
    /\ LET assignment == assignments[i]
           task_uid == create_uid(assignment.uid, TaskPrefix)
           content_hash == compute_item_hash(assignment)
       IN  \/ /\ task_uid \in DOMAIN existing_todos
              /\ HashUnchanged(existing_todos[task_uid], content_hash)
              /\ tasks_unchanged' = tasks_unchanged + 1
              /\ i' = i + 1
              /\ UNCHANGED <<pc, pending, updated_items, tasks_added, tasks_updated>>
           \/ /\ task_uid \in DOMAIN existing_todos
              /\ ~ HashUnchanged(existing_todos[task_uid], content_hash)
              /\ updated_items' = Append(updated_items,
                     [type |-> "Task", name |-> assignment.summary,
                      changes |-> detect_changes(existing_todos[task_uid].component,
                                                 assignment, "task")])
              /\ pending' = update_vtodo(existing_todos[task_uid].component,
                                         assignment, content_hash, now)
              /\ pc' = "task_delete"
              /\ UNCHANGED <<i, tasks_added, tasks_updated, tasks_unchanged>>
           \/ /\ task_uid \notin DOMAIN existing_todos
              /\ pending' = assignment_to_vtodo(assignment, content_hash, now)
              /\ pc' = "task_save"
              /\ UNCHANGED <<i, updated_items, tasks_added, tasks_updated, tasks_unchanged>>
    /\ UNCHANGED <<inputs, hashing, run, now, lists, remote_todos, remote_events, list_result,
                   existing_todos, existing_events, events_added, events_updated,
                   events_unchanged, failed_prints, calls, ghosts>>

\* a delete whose failure is passed over: the save is made all the same
TaskDeleteThenSaveAnyway ==
    /\ pc = "task_delete"
    /\ LET handle == existing_todos[pending.uid].object
       IN  \/ /\ handle \in DOMAIN remote_todos
              /\ remote_todos' = Remove(remote_todos, handle)
              /\ calls' = Append(calls, Call("delete", "task", i, handle, TRUE))
           \/ /\ calls' = Append(calls, Call("delete", "task", i, handle, FALSE))
              /\ UNCHANGED remote_todos
    /\ pc' = "task_resave"
    /\ UNCHANGED <<i, pending, failed_prints>>
    /\ UNCHANGED <<inputs, hashing, run, now, lists, remote_events, list_result, existing_todos,
                   existing_events, counters, updated_items, ghosts>>

\* existing["object"].delete() of an update
TaskDelete ==
    /\ pc = "task_delete"
    /\ LET handle == existing_todos[pending.uid].object
       IN  \/ /\ handle \in DOMAIN remote_todos
              /\ remote_todos' = Remove(remote_todos, handle)
              /\ calls' = Append(calls, Call("delete", "task", i, handle, TRUE))
              /\ pc' = "task_resave"
              /\ UNCHANGED <<i, pending, failed_prints>>
           \/ /\ calls' = Append(calls, Call("delete", "task", i, handle, FALSE))
              /\ failed_prints' = failed_prints + 1
              /\ pending' = NoPending
              /\ i' = i + 1
              /\ pc' = AfterFailedWrite("tasks")
              /\ UNCHANGED remote_todos
    /\ UNCHANGED <<inputs, hashing, run, now, lists, remote_events, list_result, existing_todos,
                   existing_events, counters, updated_items, ghosts>>

\* a save after the delete that is made a second time when it raises
TaskResaveRetrying ==
    /\ pc = "task_resave"
    /\ \/ /\ remote_todos' = Put(remote_todos, pending)
          /\ calls' = Append(calls, Call("create", "task", i, pending.uid, TRUE))
          /\ tasks_updated' = tasks_updated + 1
          /\ pc' = "tasks"
          /\ UNCHANGED failed_prints
       \/ /\ calls' = Append(calls, Call("create", "task", i, pending.uid, FALSE))
                        \o <<Call("create", "task", i, pending.uid, FALSE)>>
          /\ failed_prints' = failed_prints + 1
          /\ pc' = AfterFailedWrite("tasks")
          /\ UNCHANGED <<remote_todos, tasks_updated>>
    /\ pending' = NoPending
    /\ i' = i + 1
    /\ UNCHANGED <<inputs, hashing, run, now, lists, remote_events, list_result, existing_todos,
                   existing_events, tasks_added, tasks_unchanged, events_added,
                   events_updated, events_unchanged, updated_items, ghosts>>

\* calendar.save_todo of an update, after the delete
TaskResave ==
    /\ pc = "task_resave"
    /\ \/ /\ remote_todos' = Put(remote_todos, pending)
          /\ calls' = Append(calls, Call("create", "task", i, pending.uid, TRUE))
          /\ tasks_updated' = tasks_updated + 1
          /\ pc' = "tasks"
          /\ UNCHANGED failed_prints
       \/ /\ calls' = Append(calls, Call("create", "task", i, pending.uid, FALSE))
          /\ failed_prints' = failed_prints + 1
          /\ pc' = AfterFailedWrite("tasks")
          /\ UNCHANGED <<remote_todos, tasks_updated>>
    /\ pending' = NoPending
    /\ i' = i + 1
    /\ UNCHANGED <<inputs, hashing, run, now, lists, remote_events, list_result, existing_todos,
                   existing_events, tasks_added, tasks_unchanged, events_added,
                   events_updated, events_unchanged, updated_items, ghosts>>

\* a save of a new task after which the index is read again from the server
TaskSaveRefreshingIndex ==
    /\ pc = "task_save"
    /\ \/ /\ remote_todos' = Put(remote_todos, pending)
          /\ calls' = Append(calls, Call("create", "task", i, pending.uid, TRUE))
          /\ tasks_added' = tasks_added + 1
          /\ pc' = "tasks"
          /\ UNCHANGED failed_prints
       \/ /\ calls' = Append(calls, Call("create", "task", i, pending.uid, FALSE))
          /\ failed_prints' = failed_prints + 1
          /\ pc' = AfterFailedWrite("tasks")
          /\ UNCHANGED <<remote_todos, tasks_added>>
    /\ existing_todos' = Index(remote_todos')
    /\ pending' = NoPending
    /\ i' = i + 1
    /\ UNCHANGED <<inputs, hashing, run, now, lists, remote_events, list_result,
                   existing_events, tasks_updated, tasks_unchanged, events_added,
                   events_updated, events_unchanged, updated_items, ghosts>>

\* calendar.save_todo of a new task
TaskSave ==
    /\ pc = "task_save"
    /\ \/ /\ remote_todos' = Put(remote_todos, pending)
          /\ calls' = Append(calls, Call("create", "task", i, pending.uid, TRUE))
          /\ tasks_added' = tasks_added + 1
          /\ pc' = "tasks"
          /\ UNCHANGED failed_prints
       \/ /\ calls' = Append(calls, Call("create", "task", i, pending.uid, FALSE))
          /\ failed_prints' = failed_prints + 1
          /\ pc' = AfterFailedWrite("tasks")
          /\ UNCHANGED <<remote_todos, tasks_added>>
    /\ pending' = NoPending
    /\ i' = i + 1
    /\ UNCHANGED <<inputs, hashing, run, now, lists, remote_events, list_result, existing_todos,
                   existing_events, tasks_updated, tasks_unchanged, events_added,
                   events_updated, events_unchanged, updated_items, ghosts>>

\* the first loop is over: the loop over no_class_events starts
TasksDone ==
    /\ pc = "tasks"
    /\ i > Len(assignments)
    /\ pc' = "events"
    /\ i' = 1
    /\ UNCHANGED <<inputs, hashing, run, now, lists, remote_todos, remote_events, list_result,
                   existing_todos, existing_events, pending, counters, updated_items,
                   failed_prints, calls, ghosts>>

\* the loop body for one no-class item, up to the first call on the server
SyncEvent ==
    /\ pc = "events"
    /\ i <= Len(no_class_events)
    /\ LET item == no_class_events[i]
           event_uid == create_uid(item.uid, EventPrefix)
           content_hash == compute_item_hash(item)
       IN  \/ /\ event_uid \in DOMAIN existing_events
              /\ HashUnchanged(existing_events[event_uid], content_hash)
              /\ events_unchanged' = events_unchanged + 1
              /\ i' = i + 1
              /\ UNCHANGED <<pc, pending, updated_items, events_added, events_updated>>
           \/ /\ event_uid \in DOMAIN existing_events
              /\ ~ HashUnchanged(existing_events[event_uid], content_hash)
              /\ updated_items' = Append(updated_items,
                     [type |-> "Event", name |-> item.summary,
                      changes |-> detect_changes(existing_events[event_uid].component,
                                                 item, "event")])
              /\ pending' = update_vevent(existing_events[event_uid].component,
                                          item, content_hash, now)
              /\ pc' = "event_delete"
              /\ UNCHANGED <<i, events_added, events_updated, events_unchanged>>
           \/ /\ event_uid \notin DOMAIN existing_events
              /\ pending' = no_class_to_vevent(item, content_hash, now)
              /\ pc' = "event_save"
              /\ UNCHANGED <<i, updated_items, events_added, events_updated,
                             events_unchanged>>
    /\ UNCHANGED <<inputs, hashing, run, now, lists, remote_todos, remote_events, list_result,
                   existing_todos, existing_events, tasks_added, tasks_updated,
                   tasks_unchanged, failed_prints, calls, ghosts>>

\* existing["object"].delete() of an update
EventDelete ==
    /\ pc = "event_delete"
    /\ LET handle == existing_events[pending.uid].object
       IN  \/ /\ handle \in DOMAIN remote_events
              /\ remote_events' = Remove(remote_events, handle)
              /\ calls' = Append(calls, Call("delete", "event", i, handle, TRUE))
              /\ pc' = "event_resave"
              /\ UNCHANGED <<i, pending, failed_prints>>
           \/ /\ calls' = Append(calls, Call("delete", "event", i, handle, FALSE))
              /\ failed_prints' = failed_prints + 1
              /\ pending' = NoPending
              /\ i' = i + 1
              /\ pc' = AfterFailedWrite("events")
              /\ UNCHANGED remote_events
    /\ UNCHANGED <<inputs, hashing, run, now, lists, remote_todos, list_result, existing_todos,
                   existing_events, counters, updated_items, ghosts>>

\* calendar.save_event of an update, after the delete
EventResave ==
    /\ pc = "event_resave"
    /\ \/ /\ remote_events' = Put(remote_events, pending)
          /\ calls' = Append(calls, Call("create", "event", i, pending.uid, TRUE))
          /\ events_updated' = events_updated + 1
          /\ pc' = "events"
          /\ UNCHANGED failed_prints
       \/ /\ calls' = Append(calls, Call("create", "event", i, pending.uid, FALSE))
          /\ failed_prints' = failed_prints + 1
          /\ pc' = AfterFailedWrite("events")
          /\ UNCHANGED <<remote_events, events_updated>>
    /\ pending' = NoPending
    /\ i' = i + 1
    /\ UNCHANGED <<inputs, hashing, run, now, lists, remote_todos, list_result, existing_todos,
                   existing_events, tasks_added, tasks_updated, tasks_unchanged,
                   events_added, events_unchanged, updated_items, ghosts>>

\* calendar.save_event of a new event
EventSave ==
    /\ pc = "event_save"
    /\ \/ /\ remote_events' = Put(remote_events, pending)
          /\ calls' = Append(calls, Call("create", "event", i, pending.uid, TRUE))
          /\ events_added' = events_added + 1
          /\ pc' = "events"
          /\ UNCHANGED failed_prints
       \/ /\ calls' = Append(calls, Call("create", "event", i, pending.uid, FALSE))
          /\ failed_prints' = failed_prints + 1
          /\ pc' = AfterFailedWrite("events")
          /\ UNCHANGED <<remote_events, events_added>>
    /\ pending' = NoPending
    /\ i' = i + 1
    /\ UNCHANGED <<inputs, hashing, run, now, lists, remote_todos, list_result, existing_todos,
                   existing_events, tasks_added, tasks_updated, tasks_unchanged,
                   events_updated, events_unchanged, updated_items, ghosts>>

\* an end of the run that removes the tasks of entries no longer in the feed
PrintSummaryPruning ==
    /\ pc = "events"
    /\ i > Len(no_class_events)
    /\ pc' = "done"
    /\ remote_todos' =
          [u \in {v \in DOMAIN remote_todos :
                     \E k \in 1..Len(assignments) :
                         v = create_uid(assignments[k].uid, TaskPrefix)}
              |-> remote_todos[u]]
    /\ UNCHANGED <<inputs, hashing, run, now, lists, remote_events, list_result,
                   existing_todos, existing_events, i, pending, counters,
                   updated_items, failed_prints, calls, ghosts>>

\* both loops are over: DETAILED CHANGES and SUMMARY are printed
PrintSummary ==
    /\ pc = "events"
    /\ i > Len(no_class_events)
    /\ pc' = "done"
    /\ UNCHANGED <<inputs, hashing, run, now, lists, remote_todos, remote_events, list_result,
                   existing_todos, existing_events, i, pending, counters,
                   updated_items, failed_prints, calls, ghosts>>

\* the SUMMARY lines: what the run reports
Summary ==
    [tasks_added |-> tasks_added, tasks_updated |-> tasks_updated,
     tasks_unchanged |-> tasks_unchanged, events_added |-> events_added,
     events_updated |-> events_updated, events_unchanged |-> events_unchanged]

\* main is run again later, on the same feed and on the calendar as the last run left it
RunAgain ==
    /\ pc = "done"
    /\ run < MaxRuns
    /\ run' = run + 1
    /\ now' = now + 1
    /\ pc' = "fetch"
    /\ assignments' = <<>> /\ no_class_events' = <<>>
    /\ skipped' = <<>> /\ filtered_out' = <<>>
    /\ list_result' = "none"
    /\ existing_todos' = EmptyStore /\ existing_events' = EmptyStore
    /\ i' = 1
    /\ pending' = NoPending
    /\ tasks_added' = 0 /\ tasks_updated' = 0 /\ tasks_unchanged' = 0
    /\ events_added' = 0 /\ events_updated' = 0 /\ events_unchanged' = 0
    /\ updated_items' = <<>>
    /\ failed_prints' = 0
    /\ calls' = <<>>
    /\ prev_calls' = calls
    /\ start_todos' = remote_todos /\ start_events' = remote_events
    /\ UNCHANGED <<inputs, hashing, remote_todos, remote_events>>

Sync ==
    \/ FetchCanvasItems
    \/ GetExistingItems
    \/ SyncTask
    \/ TaskDelete
    \/ TaskResave
    \/ TaskSave
    \/ TasksDone
    \/ SyncEvent
    \/ EventDelete
    \/ EventResave
    \/ EventSave
    \/ PrintSummary

\* one run of main
Next == Sync

Spec == Init /\ [][Next]_vars

\* main run up to MaxRuns times
NextAgain == Sync \/ RunAgain

SpecAgain == Init /\ [][NextAgain]_vars

---------------------------------------------------------------------------
(* main on a calendar in which the record of a task is malformed           *)

InitBroken ==
    /\ \E f \in Feeds, r \in BrokenLabTodos, events \in InitialEvents :
          /\ feed = f
          /\ remote_todos = Store({r})
          /\ remote_events = events
    /\ config_end_date = DefaultEndDate
    /\ hash_items = <<>> /\ hashes = <<>>
    /\ pc = "fetch"
    /\ FreshRun

SpecBroken == InitBroken /\ [][Next]_vars

---------------------------------------------------------------------------
(* fetch_canvas_items alone, on any of the feeds and end dates above       *)

InitFetch ==
    /\ \E f \in FetchFeeds, c \in EndDateStrings :
          /\ feed = f
          /\ config_end_date = c
    /\ remote_todos = EmptyStore /\ remote_events = EmptyStore
    /\ hash_items = <<>> /\ hashes = <<>>
    /\ pc = "fetch"
    /\ FreshRun

NextFetch == FetchCanvasItems

SpecFetch == InitFetch /\ [][NextFetch]_vars

---------------------------------------------------------------------------
(* compute_item_hash alone, called on two items; between the calls time    *)
(* may pass and the task client may edit the record on the server          *)

InitHash ==
    /\ \/ \E fields \in ItemFields, k \in 1..8 : \E value \in FieldValues[k] :
             hash_items = OneFieldApart(fields, k, value)
       \/ \E fields \in ItemFields, k \in TextFields :
             hash_items = MissingAndEmpty(fields, k)
       \/ \E fields \in ItemFields, k \in 1..7 :
          \E value \in FieldValues[k], next_value \in FieldValues[k + 1] :
             hash_items = TwoFieldsApart(fields, k, value, next_value)
    /\ hashes = <<>>
    /\ feed = <<>>
    /\ config_end_date = DefaultEndDate
    /\ remote_todos = Store({SavedTodo(FeedLab)}) /\ remote_events = EmptyStore
    /\ pc = "hash"
    /\ FreshRun

\* the call with a fingerprint that takes in the time of the run
ComputeItemHashStamped ==
    /\ pc = "hash"
    /\ Len(hashes) < Len(hash_items)
    /\ hashes' = Append(hashes, compute_item_hash(hash_items[Len(hashes) + 1])
                                  \o "|at:" \o DateStr(<<now>>))
    /\ UNCHANGED <<inputs, hash_items, pc, run, now, lists, remote_todos, remote_events,
                   list_result, existing_todos, existing_events, i, pending, counters,
                   updated_items, failed_prints, calls, ghosts>>

ComputeItemHash ==
    /\ pc = "hash"
    /\ Len(hashes) < Len(hash_items)
    /\ hashes' = Append(hashes, compute_item_hash(hash_items[Len(hashes) + 1]))
    /\ UNCHANGED <<inputs, hash_items, pc, run, now, lists, remote_todos, remote_events,
                   list_result, existing_todos, existing_events, i, pending, counters,
                   updated_items, failed_prints, calls, ghosts>>

\* what a task client sets on a VTODO: done, started, another priority
TaskClientEdits ==
    {[status |-> "COMPLETED", percent_complete |-> 100, completed |-> <<1>>, priority |-> 1],
     [status |-> "IN-PROCESS", percent_complete |-> 50],
     [priority |-> 9, last_modified |-> <<1>>]}

\* the second call is made in a later run, on a calendar whose record the task
\* client has edited meanwhile
LaterRun ==
    /\ pc = "hash"
    /\ Len(hashes) = 1
    /\ run < MaxRuns
    /\ run' = run + 1
    /\ now' = now + 1
    /\ \E edit \in TaskClientEdits :
          remote_todos' = [u \in DOMAIN remote_todos |-> Edited(remote_todos[u], edit)]
    /\ UNCHANGED <<inputs, hashing, pc, lists, remote_events, list_result,
                   existing_todos, existing_events, i, pending, counters,
                   updated_items, failed_prints, calls, ghosts>>

NextHash == ComputeItemHash \/ LaterRun

SpecHash == InitHash /\ [][NextHash]_vars

---------------------------------------------------------------------------
(* What a run did, read from the calls it made on the server               *)

\* the calls made for the idx-th item of the loop over kind ("task" or "event")
ItemCalls(kind, idx) == SelectSeq(calls, LAMBDA c : c.kind = kind /\ c.idx = idx)

AllOk(cs) == \A k \in 1..Len(cs) : cs[k].ok

\* the items a single successful save was made for
CreatedItems(kind, n) ==
    {idx \in 1..n :
        LET cs == ItemCalls(kind, idx)
        IN  Len(cs) = 1 /\ cs[1].op = "create" /\ cs[1].ok}

\* the items whose old record was deleted and whose new record was saved
ReplacedItems(kind, n) ==
    {idx \in 1..n :
        LET cs == ItemCalls(kind, idx)
        IN  Len(cs) = 2 /\ cs[1].op = "delete" /\ cs[2].op = "create" /\ AllOk(cs)}

\* the items for which a call on the server raised
RaisedItems(kind, n) == {idx \in 1..n : ~ AllOk(ItemCalls(kind, idx))}

ListingFailed == list_result \in {"todos_failed", "events_failed", "both_failed"}

\* sync_to_caldav was entered and has returned
SyncReturned == pc = "done" /\ list_result # "none"

TaskUid(k) == create_uid(assignments[k].uid, TaskPrefix)
EventUid(k) == create_uid(no_class_events[k].uid, EventPrefix)

---------------------------------------------------------------------------
(* Claims                                                                  *)

\* C1: idempotence.  When the first run made only successful calls on the
\* server, the second run on the same feed makes no delete and no save and
\* counts every item as unchanged.
C1_SecondRunWritesNothing ==
    (run = 2 /\ AllOk(prev_calls)) =>
        /\ calls = <<>>
        /\ SyncReturned =>
              /\ tasks_unchanged = Len(assignments)
              /\ events_unchanged = Len(no_class_events)

\* C2: an item whose uid is in the index with a stored hash equal to the fresh
\* hash: the loop body makes no call on the server, leaves the calendar as it
\* is, counts the item as unchanged and goes on to the next item.
C2_UnchangedItemIsNotWritten ==
    [][ /\ ( /\ pc = "tasks"
             /\ i <= Len(assignments)
             /\ TaskUid(i) \in DOMAIN existing_todos
             /\ existing_todos[TaskUid(i)].hash = compute_item_hash(assignments[i]) )
           => /\ calls' = calls
              /\ remote_todos' = remote_todos /\ remote_events' = remote_events
              /\ tasks_unchanged' = tasks_unchanged + 1
              /\ tasks_added' = tasks_added /\ tasks_updated' = tasks_updated
              /\ pc' = "tasks" /\ i' = i + 1
        /\ ( /\ pc = "events"
             /\ i <= Len(no_class_events)
             /\ EventUid(i) \in DOMAIN existing_events
             /\ existing_events[EventUid(i)].hash = compute_item_hash(no_class_events[i]) )
           => /\ calls' = calls
              /\ remote_todos' = remote_todos /\ remote_events' = remote_events
              /\ events_unchanged' = events_unchanged + 1
              /\ events_added' = events_added /\ events_updated' = events_updated
              /\ pc' = "events" /\ i' = i + 1
      ]_vars

\* C2 witness: a run that counted a task and an event as unchanged and wrote
\* another item
C2_Witness ==
    /\ SyncReturned
    /\ tasks_unchanged + events_unchanged >= 1
    /\ calls # <<>>

\* C3: the VTODO rebuilt for a changed item carries the prior record's status,
\* completed, percent-complete and created unchanged, and the summary and the
\* hash of the new item.
C3_UpdateKeepsOwnedFields ==
    pc = "task_delete" =>
        LET prior == existing_todos[pending.uid].component
        IN  /\ \A k \in {"status", "completed", "percent_complete", "created"} :
                  k \in DOMAIN prior => k \in DOMAIN pending /\ pending[k] = prior[k]
            /\ pending.summary = assignments[i].summary
            /\ pending.x_canvas_hash = compute_item_hash(assignments[i])

\* C4: the VTODO rebuilt for a changed item has the priority of the prior record.
C4_UpdateKeepsPriority ==
    pc = "task_delete" =>
        LET prior == existing_todos[pending.uid].component
        IN  "priority" \in DOMAIN prior => pending.priority = prior.priority

\* C5: every uid that had a record on the server when the run started has one
\* when the run ends, whatever calls failed.
C5_NoRecordIsLost ==
    SyncReturned =>
        /\ DOMAIN start_todos \subseteq DOMAIN remote_todos
        /\ DOMAIN start_events \subseteq DOMAIN remote_events

\* C6: after a run whose calls on the server all succeeded, every item has a
\* record under its uid whose stored hash is the item's fresh hash.
C6_EveryItemHasItsUpToDateRecord ==
    (SyncReturned /\ AllOk(calls)) =>
        /\ \A k \in 1..Len(assignments) :
              /\ TaskUid(k) \in DOMAIN remote_todos
              /\ remote_todos[TaskUid(k)].x_canvas_hash = compute_item_hash(assignments[k])
        /\ \A k \in 1..Len(no_class_events) :
              /\ EventUid(k) \in DOMAIN remote_events
              /\ remote_events[EventUid(k)].x_canvas_hash
                    = compute_item_hash(no_class_events[k])

\* C7: when a listing of get_existing_items failed, the run makes no delete
\* and no save.
C7_NoWriteAfterFailedListing == ListingFailed => calls = <<>>

\* C8: a call that raises never ends the run.  When sync_to_caldav returns,
\* both loops have run to their end; the items counted as added are those with
\* one successful save, the items counted as updated those with a successful
\* delete and save, whatever happened to the other items; and every item is
\* added, updated, unchanged or one whose call raised.
C8_FailuresAreIsolated ==
    SyncReturned =>
        /\ i = Len(no_class_events) + 1
        /\ tasks_added = Cardinality(CreatedItems("task", Len(assignments)))
        /\ tasks_updated = Cardinality(ReplacedItems("task", Len(assignments)))
        /\ events_added = Cardinality(CreatedItems("event", Len(no_class_events)))
        /\ events_updated = Cardinality(ReplacedItems("event", Len(no_class_events)))
        /\ tasks_added + tasks_updated + tasks_unchanged
              + Cardinality(RaisedItems("task", Len(assignments))) = Len(assignments)
        /\ events_added + events_updated + events_unchanged
              + Cardinality(RaisedItems("event", Len(no_class_events)))
              = Len(no_class_events)

\* C8 witness: the call for the first item raised, and a later item was saved
\* and counted
C8_Witness ==
    /\ SyncReturned
    /\ calls # <<>>
    /\ ~ calls[1].ok
    /\ \E k \in 2..Len(calls) : calls[k].ok
    /\ tasks_added + tasks_updated + events_added + events_updated >= 1

\* the failed count a reader finds in the SUMMARY
ReportedFailed == IF "failed" \in DOMAIN Summary THEN Summary["failed"] ELSE 0

\* C9: the run reports as failed as many items as had a call raise.
C9_FailedCountIsReported ==
    SyncReturned =>
        ReportedFailed = Cardinality(RaisedItems("task", Len(assignments)))
                         + Cardinality(RaisedItems("event", Len(no_class_events)))

\* C10: the uids derived for the items fetch_canvas_items returns are pairwise
\* distinct within assignments and within no_class_events.
C10_DerivedUidsAreDistinct ==
    pc # "fetch" =>
        /\ \A a, b \in 1..Len(assignments) : a # b => TaskUid(a) # TaskUid(b)
        /\ \A a, b \in 1..Len(no_class_events) : a # b => EventUid(a) # EventUid(b)

---------------------------------------------------------------------------
(* What fetch_canvas_items did with the entries of the feed                *)

\* item is the item_info built from the feed entry e
IsItemOf(item, e) ==
    /\ item.uid = e.uid /\ item.summary = e.summary
    /\ item.dtstart = e.dtstart /\ item.dtend = e.dtend
    /\ item.description = e.description /\ item.url = e.url
    /\ item.location = e.location

\* the feed entry e has an item in list
Holds(list, e) == \E j \in 1..Len(list) : IsItemOf(list[j], e)

Fetched == pc # "fetch"

\* the cutoff of the run: None, or <<day>>
Cutoff == parse_end_date(config_end_date)

AfterCutoff(e) == Cutoff # None /\ e.dtstart # None /\ e.dtstart[1] > Cutoff[1]

HasNoClassKeyword(e) == matches_keywords(e.summary, NoClassKeywords)

HasCourseCode(e) == extract_course_id_from_summary(e.summary) # None

\* C11: an entry in range whose title has a no-class keyword and a bracketed
\* course code is in no_class_events and not in assignments.
C11_NoClassBeforeCourseCode ==
    Fetched =>
        \A k \in 1..Len(feed) :
            (~ AfterCutoff(feed[k]) /\ HasNoClassKeyword(feed[k]) /\ HasCourseCode(feed[k]))
                => Holds(no_class_events, feed[k]) /\ ~ Holds(assignments, feed[k])

\* C11 witness: "[IT-3150 Win] No Classes", in range, was classified
C11_Witness ==
    /\ Fetched
    /\ Len(feed) = 1
    /\ ~ AfterCutoff(feed[1]) /\ HasNoClassKeyword(feed[1]) /\ HasCourseCode(feed[1])
    /\ Len(no_class_events) = 1

\* C12: an entry is in filtered_out exactly when the run has a cutoff and the
\* entry has a start date after it (an entry dated on the cutoff, or with no
\* start date, is not), and an entry in filtered_out is in no other list.
C12_FilteredExactlyWhenAfterCutoff ==
    Fetched =>
        \A k \in 1..Len(feed) :
            /\ Holds(filtered_out, feed[k]) <=> AfterCutoff(feed[k])
            /\ Holds(filtered_out, feed[k]) =>
                  /\ ~ Holds(assignments, feed[k])
                  /\ ~ Holds(no_class_events, feed[k])
                  /\ ~ Holds(skipped, feed[k])

\* C12 witness: with the cutoff on day 8, of two entries with a course code the
\* one that starts on day 9 was filtered out and the other was kept
C12_Witness ==
    /\ Fetched
    /\ Cutoff = <<8>>
    /\ Len(feed) = 2
    /\ AfterCutoff(feed[1]) /\ HasCourseCode(feed[1])
    /\ ~ AfterCutoff(feed[2]) /\ HasCourseCode(feed[2])
    /\ Len(filtered_out) = 1
    /\ Len(assignments) = 1

\* the items of the four lists
AllItems == assignments \o no_class_events \o skipped \o filtered_out

\* the course id an item carries: None, or <<course_id>>
CourseIdOf(item) == IF "course_id" \in DOMAIN item THEN <<item.course_id>> ELSE None

\* the first position from k on at which s has the character c; 0 when there is none
RECURSIVE IndexFrom(_, _, _)
IndexFrom(s, c, k) ==
    IF k > Len(s) THEN 0
    ELSE IF s[k] = c THEN k
    ELSE IndexFrom(s, c, k + 1)

\* the course id the title stands for: in a bracketed token "[CODE text]" or
\* "[CODE-NN text]", CODE without the two-digit section suffix; None when the
\* title has no such token
CourseCodeOfTitle(summary) ==
    LET s == Chars(summary)
        open == IndexFrom(s, "[", 1)
        space == IF open = 0 THEN 0 ELSE IndexFrom(s, " ", open + 1)
        close == IF open = 0 THEN 0 ELSE IndexFrom(s, "]", open + 1)
    IN  IF \/ open = 0 \/ space = 0 \/ close = 0
           \/ space = open + 1
           \/ close < space + 2
           \/ \E j \in (open + 1)..(space - 1) : ~ IsCodeChar(s[j])
        THEN None
        ELSE LET token == SubSeq(s, open + 1, space - 1)
                 n == Len(token)
             IN  IF /\ n > 3
                    /\ token[n - 2] = "-"
                    /\ token[n - 1] \in DigitSet
                    /\ token[n] \in DigitSet
                 THEN <<Str(SubSeq(token, 1, n - 3))>>
                 ELSE <<Str(token)>>

\* C13: the course id of an item is the code of the bracketed token of its
\* title without the two-digit section suffix ("[HIST-1700-07 American
\* History]: Essay 2" gives HIST-1700, "[IT-3150 Windows Servers]" gives
\* IT-3150), and an item whose title has no bracketed token has no course id.
C13_CourseIdWithoutSection ==
    Fetched =>
        \A j \in 1..Len(AllItems) :
            CourseIdOf(AllItems[j]) = CourseCodeOfTitle(AllItems[j].summary)

\* C14: an assignment titled "Lab 3 Report" has the type tag Lab, and an
\* assignment titled "Collaborative" has not.
C14_LabReportIsTaggedLab ==
    Fetched =>
        \A j \in 1..Len(assignments) :
            /\ assignments[j].summary = "Lab 3 Report" => assignments[j].type_tag = "Lab"
            /\ assignments[j].summary = "Collaborative" => assignments[j].type_tag # "Lab"

\* the value of the k-th fingerprinted field of an item: <<>> when the item has
\* none (no key, or no date under the key), else <<value>>
FieldOf(item, k) ==
    IF FieldKeys[k] \notin DOMAIN item THEN <<>>
    ELSE IF k \in {5, 6} /\ item[FieldKeys[k]] = None THEN <<>>
    ELSE <<item[FieldKeys[k]]>>

\* the fingerprinted fields in which two items differ
DiffFields(a, b) == {k \in 1..8 : FieldOf(a, k) # FieldOf(b, k)}

\* an item as fetch_canvas_items builds it: the four texts are there, and a
\* course id or type tag that is there is not empty
IsClassifiedItem(item) ==
    /\ \A k \in 1..4 : FieldKeys[k] \in DOMAIN item
    /\ \A k \in {7, 8} : FieldOf(item, k) # <<"">>

BothHashed == pc = "hash" /\ Len(hash_items) = 2 /\ Len(hashes) = 2

\* C15: two classified items that differ in exactly one of title, description,
\* URL, location, start, end, course id and type tag have different
\* fingerprints (the digest taken as injective on the string it is computed of).
C15_OneFieldChangesTheHash ==
    ( /\ BothHashed
      /\ IsClassifiedItem(hash_items[1]) /\ IsClassifiedItem(hash_items[2])
      /\ Cardinality(DiffFields(hash_items[1], hash_items[2])) = 1 )
    => hashes[1] # hashes[2]

\* both fingerprints are computed of two classified items that differ in the
\* location alone
C15_Witness ==
    /\ BothHashed
    /\ IsClassifiedItem(hash_items[1]) /\ IsClassifiedItem(hash_items[2])
    /\ DiffFields(hash_items[1], hash_items[2]) = {4}
    /\ hashes[1] # hashes[2]

\* the first item lacks the text field k, the second has it with the empty
\* string, and they are alike in the other seven fields
MissingAgainstEmpty(a, b, k) ==
    /\ FieldKeys[k] \notin DOMAIN a
    /\ FieldOf(b, k) = <<"">>
    /\ DiffFields(a, b) = {k}

\* C16: an item in which a fingerprinted field is absent and an otherwise
\* identical item in which that field is the empty string have different
\* fingerprints.
C16_MissingDiffersFromEmpty ==
    ( /\ BothHashed
      /\ \E k \in TextFields : MissingAgainstEmpty(hash_items[1], hash_items[2], k) )
    => hashes[1] # hashes[2]

\* C17: two items equal in the eight fingerprinted fields have the same
\* fingerprint, whatever their source UIDs, the time of the run in which each
\* is computed, and the status, progress, priority and timestamps the remote
\* record has at that time.
C17_HashOfTheEightFieldsOnly ==
    ( /\ BothHashed
      /\ DiffFields(hash_items[1], hash_items[2]) = {} )
    => hashes[1] = hashes[2]

\* the two fingerprints of items equal in the eight fields are computed in
\* different runs, the remote record edited in between
C17_Witness ==
    /\ BothHashed
    /\ DiffFields(hash_items[1], hash_items[2]) = {}
    /\ hash_items[1].uid # hash_items[2].uid
    /\ now = 2
    /\ remote_todos # start_todos
    /\ hashes[1] = hashes[2]

\* the string, blanks around it aside, is four digits, "-", two digits, "-",
\* two digits, and names a day of the calendar
IsIsoDate(date_str) ==
    LET s == Strip(Chars(date_str))
    IN  /\ Len(s) = 10
        /\ \A k \in {1, 2, 3, 4, 6, 7, 9, 10} : s[k] \in DigitSet
        /\ s[5] = "-" /\ s[8] = "-"
        /\ LET year == 1000 * DigitValue(s[1]) + 100 * DigitValue(s[2])
                         + 10 * DigitValue(s[3]) + DigitValue(s[4])
               month == 10 * DigitValue(s[6]) + DigitValue(s[7])
               day == 10 * DigitValue(s[9]) + DigitValue(s[10])
           IN  /\ year >= 1
               /\ month \in 1..12
               /\ day \in 1..DaysInMonth(year, month)

\* C18: for an end_date string that is not a valid YYYY-MM-DD date,
\* parse_end_date returns no date and fetch_canvas_items filters out no item.
C18_MalformedCutoffFiltersNothing ==
    (Fetched /\ ~ IsIsoDate(config_end_date)) =>
        /\ Cutoff = None
        /\ filtered_out = <<>>

\* the list the first applicable rule selects for the feed entry e
RuleList(e) ==
    IF AfterCutoff(e) THEN "filtered_out"
    ELSE IF HasNoClassKeyword(e) THEN "no_class_events"
    ELSE IF HasCourseCode(e) THEN "assignments"
    ELSE IF \/ matches_keywords(e.uid, AssignmentUidKeywords)
            \/ matches_keywords(e.summary, AssignmentSummaryKeywords)
    THEN "assignments"
    ELSE "skipped"

ListNames == {"assignments", "no_class_events", "skipped", "filtered_out"}

ListNamed(name) ==
    CASE name = "assignments" -> assignments
      [] name = "no_class_events" -> no_class_events
      [] name = "skipped" -> skipped
      [] name = "filtered_out" -> filtered_out

\* C19: every feed entry has its item in the list the first applicable rule
\* selects (after cutoff, no-class keyword, course id, assignment keyword in
\* the UID or summary keyword in the title, else skipped) and in no other, the
\* four lists hold one item per entry, every item of assignments has a type
\* tag and no item of another list has one.
C19_OneListPerEntry ==
    Fetched =>
        /\ Len(assignments) + Len(no_class_events) + Len(skipped) + Len(filtered_out)
             = Len(feed)
        /\ \A k \in 1..Len(feed) : \A name \in ListNames :
              Holds(ListNamed(name), feed[k]) <=> name = RuleList(feed[k])
        /\ \A j \in 1..Len(assignments) : "type_tag" \in DOMAIN assignments[j]
        /\ \A name \in ListNames \ {"assignments"} :
              \A j \in 1..Len(ListNamed(name)) :
                  "type_tag" \notin DOMAIN ListNamed(name)[j]

\* a feed of two entries went to two lists: one item is an assignment with its
\* tag, the other was skipped
C19_Witness ==
    /\ Fetched
    /\ Len(feed) = 2
    /\ Len(assignments) = 1 /\ "type_tag" \in DOMAIN assignments[1]
    /\ Len(skipped) = 1 /\ "type_tag" \notin DOMAIN skipped[1]

\* keyword occurs in title, letter case aside, with no letter, digit or
\* underscore next to it on either side
OccursAsWord(title, keyword) ==
    LET text == Lower(title)
        word == Lower(keyword)
    IN  \E first \in 1..Len(text) :
            LET last == first + Len(word) - 1
            IN  /\ last <= Len(text)
                /\ SubSeq(text, first, last) = word
                /\ first = 1 \/ ~ IsWordChar(text[first - 1])
                /\ last = Len(text) \/ ~ IsWordChar(text[last + 1])

\* the tag of the first row of the table, from row t on, that has a keyword
\* occurring in title as a word; "Assignment" when no row has one
RECURSIVE FirstTagFrom(_, _)
FirstTagFrom(title, t) ==
    IF t > Len(ASSIGNMENT_TYPE_KEYWORDS) THEN "Assignment"
    ELSE IF \E k \in 1..Len(ASSIGNMENT_TYPE_KEYWORDS[t][2]) :
               OccursAsWord(title, Chars(ASSIGNMENT_TYPE_KEYWORDS[t][2][k]))
    THEN ASSIGNMENT_TYPE_KEYWORDS[t][1]
    ELSE FirstTagFrom(title, t + 1)

\* C20: the type tag of an assignment is the first tag, in the order of the
\* table, that has a keyword occurring in the title as a whole word, letter
\* case aside, and Assignment when no tag has one.
C20_FirstWholeWordTag ==
    Fetched =>
        \A j \in 1..Len(assignments) :
            assignments[j].type_tag = FirstTagFrom(Chars(assignments[j].summary), 1)

\* "Labs and slides" is an assignment: "lab" occurs only inside "labs", so the
\* tag is that of the later row with "slides"
C20_Witness ==
    /\ Fetched
    /\ Len(assignments) = 1
    /\ assignments[1].summary = "Labs and slides"
    /\ assignments[1].type_tag = "Presentation"

---------------------------------------------------------------------------
(* The reconciliation loop of sync_to_caldav                               *)

\* C21: in a run of sync_to_caldav the index of existing tasks and events is
\* written by one step only, the listing at the start; that step comes before
\* the first delete or save, and no later step of the run changes the index,
\* whatever was written on the server for earlier items.
C21_IndexIsReadOnceBeforeWrites ==
    [][ /\ ( \/ existing_todos' # existing_todos
             \/ existing_events' # existing_events
             \/ list_result' # list_result )
           => /\ pc = "list" /\ list_result = "none" /\ calls = <<>>
              /\ list_result' # "none"
        /\ calls' # calls => list_result # "none"
      ]_vars

\* two entries of one UID, neither on the server at the listing: the decision
\* for the second did not see the save made for the first, so both were saved
C21_Witness ==
    /\ SyncReturned
    /\ list_result = "ok"
    /\ Len(calls) = 2
    /\ calls[1].op = "create" /\ calls[1].ok
    /\ calls[2].op = "create" /\ calls[2].ok
    /\ calls[1].uid = calls[2].uid
    /\ existing_todos # Index(remote_todos)

\* the item has a record in the index whose stored hash is not its fresh hash
IsUpdate(kind, idx) ==
    IF kind = "task"
    THEN /\ TaskUid(idx) \in DOMAIN existing_todos
         /\ existing_todos[TaskUid(idx)].hash # compute_item_hash(assignments[idx])
    ELSE /\ EventUid(idx) \in DOMAIN existing_events
         /\ existing_events[EventUid(idx)].hash # compute_item_hash(no_class_events[idx])

\* the items of the loop over kind the run has come to
ItemsOf(kind) ==
    IF kind = "task" THEN 1..Len(assignments) ELSE 1..Len(no_class_events)

Kinds == {"task", "event"}

\* C22: for an item that is updated, the save of the new record is issued only
\* after the delete of the old record has returned, for the same identifier;
\* when the delete raises no save is issued for the item; and at the moment
\* the save is issued the server holds no record under that identifier.
C22_DeleteThenCreate ==
    /\ list_result # "none" =>
          \A kind \in Kinds : \A idx \in ItemsOf(kind) :
              LET cs == ItemCalls(kind, idx)
              IN  (IsUpdate(kind, idx) /\ cs # <<>>) =>
                      /\ cs[1].op = "delete"
                      /\ Len(cs) <= 2
                      /\ Len(cs) = 2 =>
                            /\ cs[1].ok
                            /\ cs[2].op = "create"
                            /\ cs[2].uid = cs[1].uid
    /\ pc = "task_resave" => pending.uid \notin DOMAIN remote_todos
    /\ pc = "event_resave" => pending.uid \notin DOMAIN remote_events

\* the delete for one updated item raised and nothing was saved for it, the
\* record of another item was deleted and saved again
C22_Witness ==
    /\ SyncReturned
    /\ \E kind \in Kinds : \E idx \in ItemsOf(kind) :
          /\ IsUpdate(kind, idx)
          /\ Len(ItemCalls(kind, idx)) = 1
          /\ ~ ItemCalls(kind, idx)[1].ok
    /\ \E kind \in Kinds : ReplacedItems(kind, Cardinality(ItemsOf(kind))) # {}

\* the number of calls op among cs
CountOp(cs, op) == Len(SelectSeq(cs, LAMBDA c : c.op = op))

\* the items the run decided without a call on the server
UntouchedItems(kind) == {idx \in ItemsOf(kind) : ItemCalls(kind, idx) = <<>>}

\* the decisions of which idx is one: created, replaced, failed, unchanged
DecisionsOf(kind, idx) ==
    LET n == Cardinality(ItemsOf(kind))
    IN  {d \in {"created", "replaced", "failed", "unchanged"} :
            \/ d = "created" /\ idx \in CreatedItems(kind, n)
            \/ d = "replaced" /\ idx \in ReplacedItems(kind, n)
            \/ d = "failed" /\ idx \in RaisedItems(kind, n)
            \/ d = "unchanged" /\ idx \in UntouchedItems(kind)}

\* C23: at most one delete and one save are issued for an item; when the run
\* ends every item is exactly one of created, replaced, failed and unchanged,
\* the items without a call are those counted as unchanged, and per category
\* added + updated + unchanged + items whose call raised is the number of
\* items.
C23_OneDecisionPerItem ==
    /\ list_result # "none" =>
          \A kind \in Kinds : \A idx \in ItemsOf(kind) :
              /\ CountOp(ItemCalls(kind, idx), "create") <= 1
              /\ CountOp(ItemCalls(kind, idx), "delete") <= 1
    /\ SyncReturned =>
          /\ \A kind \in Kinds : \A idx \in ItemsOf(kind) :
                Cardinality(DecisionsOf(kind, idx)) = 1
          /\ tasks_unchanged = Cardinality(UntouchedItems("task"))
          /\ events_unchanged = Cardinality(UntouchedItems("event"))
          /\ tasks_added + tasks_updated + tasks_unchanged
                + Cardinality(RaisedItems("task", Len(assignments)))
                = Len(assignments)
          /\ events_added + events_updated + events_unchanged
                + Cardinality(RaisedItems("event", Len(no_class_events)))
                = Len(no_class_events)

\* a run over two tasks: the record of one was replaced, the save after the
\* delete of the other raised
C23_Witness ==
    /\ SyncReturned
    /\ Len(assignments) = 2
    /\ DecisionsOf("task", 1) \cup DecisionsOf("task", 2) = {"replaced", "failed"}
    /\ Len(calls) = 4

\* C24: when the run ends, the list of per-item change descriptions has one
\* entry per item counted as updated: its length is tasks updated plus events
\* updated, also when a delete or the save after it raised.
C24_ChangeListMatchesUpdatedCount ==
    SyncReturned => Len(updated_items) = tasks_updated + events_updated

\* the date a task is due: dtend or dtstart of the item
DueOf(item) == IF item.dtend # None THEN item.dtend ELSE item.dtstart

\* the properties of a record that its builder takes from the source item
SourceKeys(kind) ==
    IF kind = "task"
    THEN {"uid", "summary", "x_canvas_hash", "due", "description", "url", "categories"}
    ELSE {"uid", "summary", "x_canvas_hash", "dtstart", "dtend", "description", "url",
          "categories"}

\* component is a record the builder of kind produced from the source item x
ProducedFrom(component, x, kind) ==
    LET built == IF kind = "task"
                 THEN TodoSourceFields(x, compute_item_hash(x))
                 ELSE EventSourceFields(x, compute_item_hash(x))
    IN  \A k \in SourceKeys(kind) :
            /\ k \in DOMAIN built <=> k \in DOMAIN component
            /\ k \in DOMAIN built => component[k] = built[k]

\* the source items x and y differ in the field a line of detect_changes names
DiffersIn(x, y, line) ==
    CASE line = "Title" -> x.summary # y.summary
      [] line = "Description" -> x.description # y.description
      [] line = "URL" -> x.url # y.url
      [] line = "Due" -> DueOf(x) # DueOf(y)
      [] line = "Start" -> x.dtstart # y.dtstart
      [] line = "End" -> x.dtend # y.dtend
      [] line = "Location" -> x.location # y.location

\* the source items a record on the server may have been built from
SourceItems == {Classified(e, Cutoff) : e \in FeedPool}

\* C25: when an update is decided for item y and the record in the index was
\* built from source item x, detect_changes has a line for title, description,
\* URL, due, start, end or location only if x and y differ in that field.
C25_ChangeLinesNameChangedFields ==
    pc \in {"task_delete", "event_delete"} =>
        LET kind == IF pc = "task_delete" THEN "task" ELSE "event"
            y == IF kind = "task" THEN assignments[i] ELSE no_class_events[i]
            prior == IF kind = "task" THEN existing_todos[pending.uid].component
                     ELSE existing_events[pending.uid].component
            changes == updated_items[Len(updated_items)].changes
        IN  \A x \in SourceItems :
                ProducedFrom(prior, x, kind) =>
                    \A j \in 1..Len(changes) : DiffersIn(x, y, changes[j])

\* the component the parser returns for a resource when it leaves out what it
\* cannot read
Readable(r) == Without(r, {"broken"} \cup Get(r, "broken", {}))

\* C26: when the record on the server under the identifier of a changed
\* assignment has a property that cannot be read, and the listing of the
\* tasks succeeded, the record built for the assignment is the updated record
\* update_vtodo builds from the prior record without that property.
C26_UnreadableFieldIsTreatedAsAbsent ==
    ( /\ pc \in {"task_save", "task_delete"}
      /\ list_result \in {"ok", "events_failed"}
      /\ pending.uid \in BrokenIn(remote_todos)
      /\ remote_todos[pending.uid].x_canvas_hash # compute_item_hash(assignments[i]) )
    => pending = update_vtodo(Readable(remote_todos[pending.uid]), assignments[i],
                              compute_item_hash(assignments[i]), now)

\* when the run started, the server had the task of the idx-th assignment,
\* marked completed, with the assignment's fresh hash stored
CompletedAndUnchanged(idx) ==
    /\ TaskUid(idx) \in DOMAIN start_todos
    /\ Get(start_todos[TaskUid(idx)], "status", "") = "COMPLETED"
    /\ start_todos[TaskUid(idx)].x_canvas_hash = compute_item_hash(assignments[idx])

\* C27: an assignment whose task on the server is marked completed and has
\* the assignment's fresh hash is never saved again, and when the run ends it
\* is counted as unchanged.
C27_CompletedTaskIsNotCreatedAgain ==
    /\ list_result # "none" =>
          \A idx \in 1..Len(assignments) :
              CompletedAndUnchanged(idx) => ItemCalls("task", idx) = <<>>
    /\ SyncReturned =>
          tasks_unchanged >= Cardinality({idx \in 1..Len(assignments) :
                                             CompletedAndUnchanged(idx)})

\* C28: two classified items that differ in at least one of title,
\* description, URL, location, start, end, course id and type tag, in one field
\* or in several, have different fingerprints, also when a value holds the
\* separator or a label of the encoding.
C28_EncodingIsInjective ==
    ( /\ BothHashed
      /\ IsClassifiedItem(hash_items[1]) /\ IsClassifiedItem(hash_items[2])
      /\ DiffFields(hash_items[1], hash_items[2]) # {} )
    => hashes[1] # hashes[2]

\* the identifiers derived for the items of the run
TaskUids == {TaskUid(k) : k \in 1..Len(assignments)}
EventUids == {EventUid(k) : k \in 1..Len(no_class_events)}

\* the records the run found on the server under an identifier of no item
StrayTodos == DOMAIN start_todos \ TaskUids
StrayEvents == DOMAIN start_events \ EventUids

\* C29: every delete of a run is issued for an item of the run whose record in
\* the index has a stored hash that differs from the fresh one, on the record
\* under the item's identifier; a record on the server under an identifier of
\* no item of the run is neither deleted nor changed.
C29_OnlyChangedItemsAreDeleted ==
    /\ \A k \in 1..Len(calls) :
          calls[k].op = "delete" =>
              /\ calls[k].idx \in ItemsOf(calls[k].kind)
              /\ IsUpdate(calls[k].kind, calls[k].idx)
              /\ calls[k].uid = IF calls[k].kind = "task" THEN TaskUid(calls[k].idx)
                                ELSE EventUid(calls[k].idx)
    /\ \A u \in StrayTodos : u \in DOMAIN remote_todos /\ remote_todos[u] = start_todos[u]
    /\ \A u \in StrayEvents : u \in DOMAIN remote_events /\ remote_events[u] = start_events[u]

\* a run that replaced the record of a changed assignment while the server
\* held the task of an entry no longer in the feed
C29_Witness ==
    /\ SyncReturned
    /\ \E k \in 1..Len(calls) : calls[k].op = "delete" /\ calls[k].ok
    /\ StrayTodos # {}
    /\ \A u \in StrayTodos : remote_todos[u] = start_todos[u]
    /\ remote_todos # start_todos

=============================================================================
